---- MODULE Spec2Model ----
(***************************************************************************)
(* Model of minify.js: an interactive batch image tool.  A two-level menu  *)
(* selects compression (compressImages) or format conversion               *)
(* (convertImageFormats -> handleUserInput); the selected dispatcher lists *)
(* ./target once, classifies every entry by its extension and starts one   *)
(* asynchronous tinify task per eligible entry.                            *)
(*                                                                         *)
(* Strings are sequences of one-character strings, so that extname,        *)
(* toLowerCase, the extension-replacing regular expression and path.join   *)
(* are computed character by character as the JavaScript does.             *)
(***************************************************************************)
EXTENDS Integers, Sequences, FiniteSets, TLC

VARIABLES
    pc,            \* position of the process: menu, formatMenu, closed, crashed
    runs,          \* number of times the script has been launched so far
    targetExists,  \* whether ./target can be listed
    listing,       \* what fs.readdirSync(sourceFolder) returns, in its order
    dirs,          \* directories that exist (normalized paths)
    written,       \* files this run has written: set of [path, encoding, file]
    tasks,         \* Transform Tasks of this run, in the order they were started
    trace,         \* effects of this run in order: fs calls, console lines, task starts, rl.close
    fnIn,          \* input of the pure path functions (name, format)
    fnOut          \* their result

vars == <<pc, runs, targetExists, listing, dirs, written, tasks, trace, fnIn, fnOut>>

progVars == <<pc, runs, targetExists, listing, dirs, written, tasks, trace>>
fnVars == <<fnIn, fnOut>>

-----------------------------------------------------------------------------
(* Bounds *)

MaxFiles == 3

MaxRuns == 2

MaxLen == 5

-----------------------------------------------------------------------------
(* Strings *)

Upper == <<"A","B","C","D","E","F","G","H","I","J","K","L","M",
           "N","O","P","Q","R","S","T","U","V","W","X","Y","Z">>
Lower == <<"a","b","c","d","e","f","g","h","i","j","k","l","m",
           "n","o","p","q","r","s","t","u","v","w","x","y","z">>

LowerChar(c) ==
    IF \E i \in 1..26 : Upper[i] = c
    THEN Lower[CHOOSE i \in 1..26 : Upper[i] = c]
    ELSE c

UpperChar(c) ==
    IF \E i \in 1..26 : Lower[i] = c
    THEN Upper[CHOOSE i \in 1..26 : Lower[i] = c]
    ELSE c

\* String.prototype.toLowerCase
toLowerCase(s) == [i \in 1..Len(s) |-> LowerChar(s[i])]

\* String.prototype.toUpperCase
toUpperCase(s) == [i \in 1..Len(s) |-> UpperChar(s[i])]

\* tail of s from 0-based index i, as String.prototype.slice(i)
Slice(s, i) == SubSeq(s, i + 1, Len(s))

-----------------------------------------------------------------------------
(* Program constants *)

sourceFolder == <<".","/","t","a","r","g","e","t">>
compressedDestinationFolder == <<".","/","C","o","m","p","r","e","s","s","e","d">>
convertedDestinationFolder == <<".","/","C","o","n","v","e","r","t","e","d">>

validExtensions ==
    { <<".","j","p","g">>, <<".","j","p","e","g">>,
      <<".","p","n","g">>, <<".","w","e","b","p">> }

png == <<"p","n","g">>
webp == <<"w","e","b","p">>
jpeg == <<"j","p","e","g">>
Formats == {png, webp, jpeg}

-----------------------------------------------------------------------------
(* path.extname (POSIX): a backward scan that remembers the last dot, the   *)
(* end of the last path segment and whether a non-dot character precedes    *)
(* the dot.                                                                 *)

RECURSIVE extnameScan(_, _, _)
extnameScan(path, i, st) ==
    IF i < 0 THEN st
    ELSE LET code == path[i + 1] IN
         IF code = "/"
         THEN IF ~st.matchedSlash
              THEN [st EXCEPT !.startPart = i + 1]
              ELSE extnameScan(path, i - 1, st)
         ELSE LET s1 == IF st.end = -1
                        THEN [st EXCEPT !.matchedSlash = FALSE, !.end = i + 1]
                        ELSE st
                  s2 == IF code = "."
                        THEN IF s1.startDot = -1
                             THEN [s1 EXCEPT !.startDot = i]
                             ELSE IF s1.preDotState # 1
                                  THEN [s1 EXCEPT !.preDotState = 1]
                                  ELSE s1
                        ELSE IF s1.startDot # -1
                             THEN [s1 EXCEPT !.preDotState = -1]
                             ELSE s1
              IN extnameScan(path, i - 1, s2)

extname(path) ==
    LET st == extnameScan(path, Len(path) - 1,
                  [startDot |-> -1, startPart |-> 0, end |-> -1,
                   matchedSlash |-> TRUE, preDotState |-> 0])
    IN IF \/ st.startDot = -1
          \/ st.end = -1
          \/ st.preDotState = 0
          \/ (st.preDotState = 1 /\ st.startDot = st.end - 1
                                 /\ st.startDot = st.startPart + 1)
       THEN <<>>
       ELSE SubSeq(path, st.startDot + 1, st.end)

\* the classifier of both dispatch loops:
\* validExtensions.has(path.extname(file).toLowerCase())
hasValidExtensionCaseSensitive(file) == extname(file) \in validExtensions
hasValidExtension(file) == toLowerCase(extname(file)) \in validExtensions

-----------------------------------------------------------------------------
(* file.replace(/\.[^/.]+$/, `.${format}`): the leftmost '.' that is        *)
(* followed, up to the end of the string, by one or more characters none    *)
(* of which is '/' or '.'.                                                  *)

RegexMatchesAt(s, i) ==
    /\ s[i] = "."
    /\ i < Len(s)
    /\ \A j \in (i + 1)..Len(s) : s[j] \notin {"/", "."}

replaceExtensionFirstDot(file, format) ==
    IF \E i \in 1..Len(file) : file[i] = "."
    THEN LET i == CHOOSE k \in 1..Len(file) :
                      /\ file[k] = "."
                      /\ \A j \in 1..(k - 1) : file[j] # "."
         IN SubSeq(file, 1, i - 1) \o <<".">> \o format
    ELSE file
replaceExtension(file, format) ==
    IF \E i \in 1..Len(file) : RegexMatchesAt(file, i)
    THEN LET i == CHOOSE k \in 1..Len(file) :
                      /\ RegexMatchesAt(file, k)
                      /\ \A j \in 1..(k - 1) : ~RegexMatchesAt(file, j)
         IN SubSeq(file, 1, i - 1) \o <<".">> \o format
    ELSE file

-----------------------------------------------------------------------------
(* path.join (POSIX): the non-empty arguments joined by '/', normalized     *)

RECURSIVE SplitSlash(_)
SplitSlash(s) ==
    IF s = <<>> THEN << <<>> >>
    ELSE LET rest == SplitSlash(Tail(s)) IN
         IF Head(s) = "/"
         THEN << <<>> >> \o rest
         ELSE << <<Head(s)>> \o Head(rest) >> \o Tail(rest)

RECURSIVE normalizeSegments(_, _, _)
normalizeSegments(segs, acc, allowAboveRoot) ==
    IF segs = <<>> THEN acc
    ELSE LET seg == Head(segs) IN
         IF seg = <<>> \/ seg = <<".">>
         THEN normalizeSegments(Tail(segs), acc, allowAboveRoot)
         ELSE IF seg = <<".", ".">>
         THEN IF acc # <<>> /\ acc[Len(acc)] # <<".", ".">>
              THEN normalizeSegments(Tail(segs), SubSeq(acc, 1, Len(acc) - 1), allowAboveRoot)
              ELSE IF allowAboveRoot
                   THEN normalizeSegments(Tail(segs), Append(acc, seg), allowAboveRoot)
                   ELSE normalizeSegments(Tail(segs), acc, allowAboveRoot)
         ELSE normalizeSegments(Tail(segs), Append(acc, seg), allowAboveRoot)

RECURSIVE JoinSlash(_)
JoinSlash(segs) ==
    IF segs = <<>> THEN <<>>
    ELSE IF Len(segs) = 1 THEN Head(segs)
    ELSE Head(segs) \o <<"/">> \o JoinSlash(Tail(segs))

normalize(path) ==
    IF path = <<>> THEN <<".">>
    ELSE LET isAbsolute == path[1] = "/"
             trailingSeparator == path[Len(path)] = "/"
             body == JoinSlash(normalizeSegments(SplitSlash(path), <<>>, ~isAbsolute))
             p1 == IF body = <<>>
                   THEN IF isAbsolute THEN <<>>
                        ELSE IF trailingSeparator THEN <<".", "/">> ELSE <<".">>
                   ELSE IF trailingSeparator THEN body \o <<"/">> ELSE body
         IN IF isAbsolute THEN <<"/">> \o p1 ELSE p1

join(a, b) ==
    IF a = <<>> /\ b = <<>> THEN <<".">>
    ELSE IF a = <<>> THEN normalize(b)
    ELSE IF b = <<>> THEN normalize(a)
    ELSE normalize(a \o <<"/">> \o b)

-----------------------------------------------------------------------------
(* The synchronous part of a readline callback is one step.  It threads a   *)
(* record st = [pc, dirs, tasks, trace] through its statements; an uncaught *)
(* exception sets st.pc to "crashed" and skips the statements after it.     *)

Ev(e, f, a) == [ev |-> e, file |-> f, arg |-> a]

\* console.log / console.error
consoleLog(st, e, f, a) == [st EXCEPT !.trace = Append(@, Ev(e, f, a))]

\* fs.existsSync
existsSync(st, path) == normalize(path) \in st.dirs

\* fs.mkdirSync: throws EEXIST when the directory is there
mkdirSync(st, path) ==
    IF normalize(path) \in st.dirs
    THEN [st EXCEPT !.pc = "crashed",
                    !.trace = Append(@, Ev("throwEEXIST", <<>>, path))]
    ELSE [st EXCEPT !.dirs = @ \cup {normalize(path)},
                    !.trace = Append(@, Ev("mkdir", <<>>, path))]

\* if (!fs.existsSync(folder)) { fs.mkdirSync(folder); console.log("Created ...", folder); }
ensureFolderNoCheck(st, folder) ==
    LET s1 == mkdirSync(st, folder)
    IN IF s1.pc = "crashed" THEN s1 ELSE consoleLog(s1, "logCreated", <<>>, folder)
ensureFolder(st, folder) ==
    IF ~existsSync(st, folder)
    THEN LET s1 == mkdirSync(st, folder)
         IN IF s1.pc = "crashed" THEN s1 ELSE consoleLog(s1, "logCreated", <<>>, folder)
    ELSE st

\* rl.close()
rlClose(st) == [st EXCEPT !.pc = "closed", !.trace = Append(@, Ev("close", <<>>, <<>>))]

\* The request a task sends to the remote service: tinify.fromFile(sourcePath)
\* followed by toFile(destinationPath).  convert is the target type asked of
\* the service, <<>> when none is asked.
compressImage(sourcePath, destinationPath) ==
    [sourcePath |-> sourcePath, destinationPath |-> destinationPath, convert |-> <<>>]

convertAndSaveImage(sourcePath, destinationPath, format) ==
    [sourcePath |-> sourcePath, destinationPath |-> destinationPath, convert |-> <<>>]

\* calling compressImage / convertAndSaveImage starts the task; its promise is pending
startTask(st, file, op, format, req) ==
    [st EXCEPT !.tasks = Append(@, [file |-> file,
                                    op |-> op,
                                    format |-> format,
                                    sourcePath |-> req.sourcePath,
                                    destinationPath |-> req.destinationPath,
                                    convert |-> req.convert,
                                    state |-> "uploading",
                                    message |-> "none"]),
               !.trace = Append(@, Ev("start", file, req.destinationPath))]

\* paths computed by the forEach callback of compressImages
compressPathsLowerCased(file) ==
    [sourcePath |-> join(sourceFolder, file),
     destinationPath |-> join(compressedDestinationFolder, toLowerCase(file))]
compressPaths(file) ==
    [sourcePath |-> join(sourceFolder, file),
     destinationPath |-> join(compressedDestinationFolder, file)]

\* paths computed by the forEach callback of handleUserInput
convertPaths(file, format) ==
    [sourcePath |-> join(sourceFolder, file),
     destinationPath |-> join(convertedDestinationFolder, replaceExtension(file, format))]

\* body of the forEach callback of compressImages
compressEntryNoElse(st, file) ==
    LET p == compressPaths(file)
        s1 == IF hasValidExtension(file)
              THEN startTask(st, file, "compress", <<>>, compressImage(p.sourcePath, p.destinationPath))
              ELSE st
    IN consoleLog(s1, "logSkipped", file, <<>>)
compressEntryAwait(st, file) ==
    LET p == compressPaths(file)
    IN IF hasValidExtension(file)
       THEN LET s1 == startTask(st, file, "compress", <<>>, compressImage(p.sourcePath, p.destinationPath))
                n == Len(s1.tasks)
            IN [s1 EXCEPT !.tasks[n].state = "fulfilled",
                          !.trace = Append(@, Ev("logSuccess", file, <<>>))]
       ELSE consoleLog(st, "logSkipped", file, <<>>)
compressEntry(st, file) ==
    LET p == compressPaths(file)
    IN IF hasValidExtension(file)
       THEN startTask(st, file, "compress", <<>>, compressImage(p.sourcePath, p.destinationPath))
       ELSE consoleLog(st, "logSkipped", file, <<>>)

\* body of the forEach callback of handleUserInput
convertEntry(st, file, format) ==
    LET p == convertPaths(file, format)
    IN IF hasValidExtension(file)
       THEN startTask(st, file, "convert", format, convertAndSaveImage(p.sourcePath, p.destinationPath, format))
       ELSE consoleLog(st, "logSkipped", file, <<>>)

\* the entries visited from the last to the first
RECURSIVE compressForEachReversed(_, _)
compressForEachReversed(st, entries) ==
    IF entries = <<>> THEN st
    ELSE compressEntry(compressForEachReversed(st, Tail(entries)), Head(entries))
\* fs.readdirSync(sourceFolder).forEach(file => ...)
RECURSIVE compressForEach(_, _)
compressForEach(st, entries) ==
    IF entries = <<>> THEN st
    ELSE compressForEach(compressEntry(st, Head(entries)), Tail(entries))

RECURSIVE convertForEach(_, _, _)
convertForEach(st, entries, format) ==
    IF entries = <<>> THEN st
    ELSE convertForEach(convertEntry(st, Head(entries), format), Tail(entries), format)

\* fs.readdirSync(sourceFolder): throws ENOENT when ./target is missing
readdirSync(st, exists) ==
    IF exists
    THEN [st EXCEPT !.trace = Append(@, Ev("readdir", <<>>, sourceFolder))]
    ELSE [st EXCEPT !.pc = "crashed",
                    !.trace = Append(@, Ev("throwENOENT", <<>>, sourceFolder))]

compressImagesLazyFolder(st, exists, entries) ==
    LET s1 == readdirSync(st, exists)
        s2 == IF s1.pc # "crashed" /\ \E i \in 1..Len(entries) : hasValidExtension(entries[i])
              THEN ensureFolder(s1, compressedDestinationFolder)
              ELSE s1
        s3 == IF s2.pc = "crashed" THEN s2 ELSE compressForEach(s2, entries)
    IN IF s3.pc = "crashed" THEN s3 ELSE rlClose(s3)
\* compressImages waiting for every task to settle before rl.close()
compressImagesWithBarrier(st, exists, entries) ==
    LET s1 == ensureFolder(st, compressedDestinationFolder)
        s2 == IF s1.pc = "crashed" THEN s1 ELSE readdirSync(s1, exists)
        s3 == IF s2.pc = "crashed" THEN s2 ELSE compressForEach(s2, entries)
        s4 == [s3 EXCEPT
                 !.tasks = [i \in 1..Len(s3.tasks) |-> [s3.tasks[i] EXCEPT !.state = "fulfilled"]],
                 !.trace = @ \o [i \in 1..Len(s3.tasks) |->
                                    Ev("logSuccess", s3.tasks[i].file, <<>>)]]
    IN IF s3.pc = "crashed" THEN s3 ELSE rlClose(s4)
compressImages(st, exists, entries) ==
    LET s1 == ensureFolder(st, compressedDestinationFolder)
        s2 == IF s1.pc = "crashed" THEN s1 ELSE readdirSync(s1, exists)
        s3 == IF s2.pc = "crashed" THEN s2 ELSE compressForEach(s2, entries)
    IN IF s3.pc = "crashed" THEN s3 ELSE rlClose(s3)

handleUserInputWrongFolder(st, exists, entries, format) ==
    LET s1 == ensureFolder(st, compressedDestinationFolder)
        s2 == IF s1.pc = "crashed" THEN s1 ELSE readdirSync(s1, exists)
    IN IF s2.pc = "crashed" THEN s2 ELSE convertForEach(s2, entries, format)
handleUserInput(st, exists, entries, format) ==
    LET s1 == ensureFolder(st, convertedDestinationFolder)
        s2 == IF s1.pc = "crashed" THEN s1 ELSE readdirSync(s1, exists)
    IN IF s2.pc = "crashed" THEN s2 ELSE convertForEach(s2, entries, format)

\* convertImageFormats(): asks the second question and returns
convertImageFormats(st) == [st EXCEPT !.pc = "formatMenu"]

\* callback of the first rl.question
onOperationAnswerCloseAfterSwitch(st, exists, entries, answer) ==
    LET s1 == IF answer = "1" THEN compressImages(st, exists, entries)
              ELSE IF answer = "2" THEN convertImageFormats(st)
              ELSE consoleLog(st, "logInvalid", <<>>, <<>>)
    IN IF s1.pc = "crashed" THEN s1 ELSE rlClose(s1)
onOperationAnswer(st, exists, entries, answer) ==
    IF answer = "1" THEN compressImages(st, exists, entries)
    ELSE IF answer = "2" THEN convertImageFormats(st)
    ELSE rlClose(consoleLog(st, "logInvalid", <<>>, <<>>))

\* the second switch with its default case falling into case '3'
onFormatAnswerFallThrough(st, exists, entries, answer) ==
    LET s1 == IF answer = "1" THEN handleUserInput(st, exists, entries, png)
              ELSE IF answer = "2" THEN handleUserInput(st, exists, entries, webp)
              ELSE handleUserInput(consoleLog(st, "logInvalid", <<>>, <<>>), exists, entries, jpeg)
    IN IF s1.pc = "crashed" THEN s1 ELSE rlClose(s1)

\* callback of the second rl.question (inside convertImageFormats)
onFormatAnswer(st, exists, entries, answer) ==
    LET s1 == IF answer = "1" THEN handleUserInput(st, exists, entries, png)
              ELSE IF answer = "2" THEN handleUserInput(st, exists, entries, webp)
              ELSE IF answer = "3" THEN handleUserInput(st, exists, entries, jpeg)
              ELSE consoleLog(st, "logInvalid", <<>>, <<>>)
    IN IF s1.pc = "crashed" THEN s1 ELSE rlClose(s1)

-----------------------------------------------------------------------------
(* Directory contents *)

photo_png == <<"p","h","o","t","o",".","p","n","g">>
photo_JPG == <<"p","h","o","t","o",".","J","P","G">>
archive_tar_png == <<"a","r","c","h","i","v","e",".","t","a","r",".","p","n","g">>
notes_txt == <<"n","o","t","e","s",".","t","x","t">>
dot_png == <<".","p","n","g">>

Pool == {photo_png, photo_JPG, archive_tar_png, notes_txt, dot_png}

\* directory listings: distinct entry names, in any order
Listings ==
    UNION { { s \in [1..n -> Pool] : \A i, j \in 1..n : i # j => s[i] # s[j] }
            : n \in 0..MaxFiles }

Answers == {"1", "2", "3", "4"}

\* names the pure functions are applied to
FnAlphabet == {"a", ".", "p", "n", "g", "P"}

FnNames ==
    UNION { [1..n -> FnAlphabet] : n \in 1..MaxLen }
    \cup Pool
    \cup { dot_png, <<"A",".","P","N","G">>, <<"a",".","g","i","f">>,
           <<"P","H","O","T","O",".","J","P","G">>,
           <<"a",".","j","p","e","g">>, <<"a",".","W","e","b","P">> }

NoOut == [applied |-> FALSE, format |-> <<>>, compress |-> <<>>, convert |-> <<>>]

-----------------------------------------------------------------------------
(* The remote service and the local write *)

\* encoding of a source image, read off its extension
SourceEncoding(path) ==
    LET e == toLowerCase(extname(path))
    IN IF e = <<".","p","n","g">> THEN png
       ELSE IF e = <<".","w","e","b","p">> THEN webp
       ELSE jpeg

\* encoding of the bytes the service returns: the type asked for, else the source's own
ResultEncoding(task) ==
    IF task.convert # <<>> THEN task.convert ELSE SourceEncoding(task.sourcePath)

\* path.dirname of a normalized relative path
dirname(path) ==
    IF \E i \in 1..Len(path) : path[i] = "/"
    THEN LET i == CHOOSE k \in 1..Len(path) :
                      /\ path[k] = "/"
                      /\ \A j \in (k + 1)..Len(path) : path[j] # "/"
         IN SubSeq(path, 1, i - 1)
    ELSE <<".">>

\* .then(() => console.log(...)).catch(error => console.error(...)) on a task's promise
settleHandlersAlwaysThen(task, outcome) ==
    IF outcome = "fulfilled"
    THEN << Ev("logSuccess", task.file, toUpperCase(task.format)) >>
    ELSE << Ev("logError", task.file, <<>>), Ev("logSuccess", task.file, toUpperCase(task.format)) >>
\* the chain without its .catch: a rejection is left unhandled
settleHandlersNoCatch(task, outcome) ==
    IF outcome = "fulfilled"
    THEN << Ev("logSuccess", task.file, toUpperCase(task.format)) >>
    ELSE << Ev("throwUnhandled", task.file, <<>>) >>
settleHandlers(task, outcome) ==
    IF outcome = "fulfilled"
    THEN << Ev("logSuccess", task.file, toUpperCase(task.format)) >>
    ELSE << Ev("logError", task.file, <<>>) >>

-----------------------------------------------------------------------------
(* Actions *)

Init ==
    /\ pc = "menu"
    /\ runs = 1
    /\ targetExists \in BOOLEAN
    /\ listing \in (IF targetExists THEN Listings ELSE {<<>>})
    /\ dirs = {}
    /\ written = {}
    /\ tasks = <<>>
    /\ trace = <<>>
    /\ fnIn = <<>>
    /\ fnOut = NoOut

\* the state a readline callback starts from, the answer it was given noted in the trace
Sync(answer) ==
    [pc |-> pc, dirs |-> dirs, tasks |-> tasks,
     trace |-> Append(trace, Ev("answer", <<>>, <<answer>>))]

Commit(st) ==
    /\ pc' = st.pc
    /\ dirs' = st.dirs
    /\ tasks' = st.tasks
    /\ trace' = st.trace

\* the user answers the first question
OperationAnswer ==
    /\ pc = "menu"
    /\ \E answer \in Answers : Commit(onOperationAnswer(Sync(answer), targetExists, listing, answer))
    /\ UNCHANGED <<runs, targetExists, listing, written, fnVars>>

\* the user answers the format question
FormatAnswer ==
    /\ pc = "formatMenu"
    /\ \E answer \in Answers : Commit(onFormatAnswer(Sync(answer), targetExists, listing, answer))
    /\ UNCHANGED <<runs, targetExists, listing, written, fnVars>>

\* A settled promise runs its handlers in the same turn of the event loop,
\* after the synchronous step that started the task has returned.
\* a rejected call submitted a second time before its failure is reported
SettleRetryOnce(i, state, message) ==
    IF /\ state = "rejected"
       /\ Cardinality({ k \in 1..Len(trace) :
                           trace[k].ev = "start" /\ trace[k].file = tasks[i].file }) = 1
    THEN /\ tasks' = [tasks EXCEPT ![i].state = "uploading"]
         /\ trace' = Append(trace, Ev("start", tasks[i].file, tasks[i].destinationPath))
    ELSE /\ tasks' = [tasks EXCEPT ![i].state = state, ![i].message = message]
         /\ trace' = trace \o settleHandlers(tasks[i], state)
Settle(i, state, message) ==
    /\ tasks' = [tasks EXCEPT ![i].state = state, ![i].message = message]
    /\ trace' = trace \o settleHandlers(tasks[i], state)

\* the remote service rejects the request, or the network fails
RemoteFail ==
    /\ \E i \in 1..Len(tasks) :
          /\ tasks[i].state = "uploading"
          /\ Settle(i, "rejected", "remote")
    /\ UNCHANGED <<pc, runs, targetExists, listing, dirs, written, fnVars>>

\* the remote service returns the transformed bytes; toFile starts writing them
RemoteOk ==
    /\ \E i \in 1..Len(tasks) :
          /\ tasks[i].state = "uploading"
          /\ tasks' = [tasks EXCEPT ![i].state = "writing"]
    /\ UNCHANGED <<pc, runs, targetExists, listing, dirs, written, trace, fnVars>>

\* the write to destinationPath completes and the promise is fulfilled
WriteOk ==
    /\ \E i \in 1..Len(tasks) :
          /\ tasks[i].state = "writing"
          /\ dirname(tasks[i].destinationPath) \in dirs
          /\ written' = written \cup { [path |-> tasks[i].destinationPath,
                                        encoding |-> ResultEncoding(tasks[i]),
                                        file |-> tasks[i].file] }
          /\ Settle(i, "fulfilled", "none")
    /\ UNCHANGED <<pc, runs, targetExists, listing, dirs, fnVars>>

\* the write fails: the directory is missing (ENOENT) or another I/O error
WriteFail ==
    /\ \E i \in 1..Len(tasks) :
          /\ tasks[i].state = "writing"
          /\ Settle(i, "rejected",
                    IF dirname(tasks[i].destinationPath) \in dirs THEN "write" ELSE "ENOENT")
    /\ UNCHANGED <<pc, runs, targetExists, listing, dirs, written, fnVars>>

\* the process ending at rl.close() whatever is still pending
ExitsAtClose == TRUE
\* Node keeps the process alive while a task's request or write is pending
AllSettled == \A i \in 1..Len(tasks) : tasks[i].state \in {"fulfilled", "rejected"}

\* the process has ended and the script is launched again on the same folders
Restart ==
    /\ pc \in {"closed", "crashed"}
    /\ AllSettled
    /\ runs < MaxRuns
    /\ runs' = runs + 1
    /\ pc' = "menu"
    /\ tasks' = <<>>
    /\ trace' = <<>>
    /\ written' = {}
    /\ UNCHANGED <<targetExists, listing, dirs, fnVars>>

Next ==
    \/ OperationAnswer
    \/ FormatAnswer
    \/ RemoteFail
    \/ RemoteOk
    \/ WriteOk
    \/ WriteFail
    \/ Restart

Spec == Init /\ [][Next]_vars

\* the remote service answers every request and every local write completes
RemoteAnswers == RemoteOk \/ RemoteFail
WriteCompletes == WriteFail \/ WriteOk

FairSpec == Spec /\ WF_vars(RemoteAnswers) /\ WF_vars(WriteCompletes)

-----------------------------------------------------------------------------
(* The path functions on their own: every name of FnNames is classified and *)
(* resolved for every target format.                                        *)

InitFn ==
    /\ pc = "menu"
    /\ runs = 1
    /\ targetExists = TRUE
    /\ listing = <<>>
    /\ dirs = {}
    /\ written = {}
    /\ tasks = <<>>
    /\ trace = <<>>
    /\ fnIn \in FnNames
    /\ fnOut = NoOut

\* the forEach callbacks of both dispatchers applied to the one entry fnIn:
\* fnOut keeps the tasks each of them started (none when the entry is skipped)
Resolve ==
    /\ ~fnOut.applied
    /\ \E format \in Formats :
          LET st == [pc |-> pc, dirs |-> dirs, tasks |-> <<>>, trace |-> <<>>]
          IN fnOut' = [applied |-> TRUE,
                       format |-> format,
                       compress |-> compressEntry(st, fnIn).tasks,
                       convert |-> convertEntry(st, fnIn, format).tasks]
    /\ UNCHANGED <<progVars, fnIn>>

NextFn == Resolve

SpecFn == InitFn /\ [][NextFn]_vars

-----------------------------------------------------------------------------
(* Reading the trace *)

HasEv(tr, e) == \E k \in 1..Len(tr) : tr[k].ev = e

EvCount(tr, e) == Cardinality({ k \in 1..Len(tr) : tr[k].ev = e })

FileEvCount(tr, e, f) == Cardinality({ k \in 1..Len(tr) : tr[k].ev = e /\ tr[k].file = f })

\* the answers given in this run; each callback notes its answer first
FirstAnswer == IF Len(trace) >= 1 THEN trace[1].arg ELSE <<>>
SecondAnswer == IF Len(trace) >= 2 /\ trace[2].ev = "answer" THEN trace[2].arg ELSE <<>>

CompressRun == FirstAnswer = <<"1">>
ConvertRun == FirstAnswer = <<"2">> /\ SecondAnswer \in {<<"1">>, <<"2">>, <<"3">>}

\* the dispatch pass over the listing has been made
Dispatched == HasEv(trace, "readdir")

Settled(t) == t.state \in {"fulfilled", "rejected"}

\* the entries of Pool that pass the classifier
EligiblePool == { f \in Pool : hasValidExtension(f) }

EligibleIndexes == { k \in 1..Len(listing) : listing[k] \in EligiblePool }

-----------------------------------------------------------------------------
(* Claims *)

\* C1 (failure isolation): in either mode, whatever the results of the other
\* tasks and the order of settling, a task whose own call succeeded has exactly
\* one success line and no failure line, a task whose own call failed has
\* exactly one failure line and no success line, and a task still in flight has
\* neither.
C1_FailureIsolation ==
    \A i \in 1..Len(tasks) :
        LET f == tasks[i].file
            ok == FileEvCount(trace, "logSuccess", f)
            ko == FileEvCount(trace, "logError", f)
        IN /\ tasks[i].state = "fulfilled" => (ok = 1 /\ ko = 0)
           /\ tasks[i].state = "rejected" => (ok = 0 /\ ko = 1)
           /\ ~Settled(tasks[i]) => (ok = 0 /\ ko = 0)

\* three-file batch: A and C succeeded, B failed, all three reported
C1_Witness ==
    /\ Len(tasks) = 3
    /\ tasks[1].state = "fulfilled"
    /\ tasks[2].state = "rejected"
    /\ tasks[3].state = "fulfilled"
    /\ FileEvCount(trace, "logSuccess", tasks[1].file) = 1
    /\ FileEvCount(trace, "logError", tasks[2].file) = 1
    /\ FileEvCount(trace, "logSuccess", tasks[3].file) = 1

\* C2: once the dispatch pass is made, every entry of the listing is either
\* skipped (one skipped line, no task) or attempted (one task, no skipped
\* line), attempted exactly when its name passes the classifier; and every
\* outcome line names an entry that passed the classifier and has a task.
C2_SkippedXorAttempted ==
    LET eligible == EligibleIndexes
    IN /\ Dispatched =>
             /\ \A k \in 1..Len(listing) :
                   LET f == listing[k]
                       skipped == FileEvCount(trace, "logSkipped", f)
                       started == FileEvCount(trace, "start", f)
                       owned == Cardinality({ i \in 1..Len(tasks) : tasks[i].file = f })
                   IN /\ (skipped = 1 /\ started = 0) \/ (skipped = 0 /\ started = 1)
                      /\ started = owned
                      /\ started = 1 <=> k \in eligible
             /\ Len(tasks) = Cardinality(eligible)
       /\ ~Dispatched => (tasks = <<>> /\ ~HasEv(trace, "start") /\ ~HasEv(trace, "logSkipped"))
       /\ \A j \in 1..Len(trace) :
             trace[j].ev \in {"logSuccess", "logError"} =>
                /\ Cardinality({ k \in eligible : listing[k] = trace[j].file }) = 1
                /\ Cardinality({ i \in 1..Len(tasks) : tasks[i].file = trace[j].file }) = 1

\* a listing with a skipped and an attempted entry, the attempt reported
C2_Witness ==
    /\ Dispatched
    /\ \E k \in 1..Len(listing) : FileEvCount(trace, "logSkipped", listing[k]) = 1
    /\ \E i \in 1..Len(tasks) : Settled(tasks[i])

NoEligibleBatchDone ==
    /\ pc = "closed"
    /\ Dispatched
    /\ listing # <<>>
    /\ EligibleIndexes = {}

\* C3 as stated: a first run over a non-empty listing without eligible entries
\* starts no task and creates no output directory.
C3_NoDirectoryWithoutEligible ==
    (runs = 1 /\ NoEligibleBatchDone) => (tasks = <<>> /\ dirs = {})

\* C3 amended: such a run starts no task; the output directory of the selected
\* mode, and only it, is created when absent, before the source directory is
\* listed and whether or not an entry is eligible.
C3_DirectoryCreatedBeforeListing ==
    NoEligibleBatchDone =>
        LET folder == IF CompressRun THEN compressedDestinationFolder
                      ELSE convertedDestinationFolder
        IN /\ tasks = <<>>
           /\ normalize(folder) \in dirs
           /\ \A k \in 1..Len(trace) :
                 trace[k].ev = "mkdir" =>
                    /\ trace[k].arg = folder
                    /\ \E j \in (k + 1)..Len(trace) : trace[j].ev = "readdir"
           /\ runs = 1 => (dirs = {normalize(folder)} /\ EvCount(trace, "mkdir") = 1)

C3_Witness ==
    /\ runs = 1
    /\ NoEligibleBatchDone
    /\ CompressRun
    /\ EvCount(trace, "mkdir") = 1
    /\ tasks = <<>>

InvalidSelection ==
    \/ trace # <<>> /\ FirstAnswer \notin {<<"1">>, <<"2">>}
    \/ /\ FirstAnswer = <<"2">>
       /\ SecondAnswer # <<>>
       /\ SecondAnswer \notin {<<"1">>, <<"2">>, <<"3">>}

\* C4: after an invalid answer to either question the source directory is
\* never read, no task is started, nothing is written, and the session is
\* closed.
C4_InvalidSelection ==
    InvalidSelection =>
        /\ pc = "closed"
        /\ trace[Len(trace)].ev = "close"
        /\ HasEv(trace, "logInvalid")
        /\ ~HasEv(trace, "readdir")
        /\ ~HasEv(trace, "throwENOENT")
        /\ ~HasEv(trace, "start")
        /\ tasks = <<>>
        /\ written = {}

\* convert chosen, then an invalid format
C4_Witness ==
    /\ FirstAnswer = <<"2">>
    /\ SecondAnswer = <<"4">>
    /\ pc = "closed"
    /\ listing # <<>>

\* C5: every request of a convert task carries the selected target format and
\* the bytes written to its destination are encoded in that format; a
\* compress task asks for no format change.
C5_RequestCarriesFormat ==
    \A i \in 1..Len(tasks) :
        /\ tasks[i].op = "convert" =>
              /\ tasks[i].convert = tasks[i].format
              /\ tasks[i].state = "fulfilled" =>
                    \E w \in written :
                       /\ w.path = tasks[i].destinationPath
                       /\ w.file = tasks[i].file
                       /\ w.encoding = tasks[i].format
        /\ tasks[i].op = "compress" => tasks[i].convert = <<>>

\* C6: no step ever raises a directory-exists error or crashes the run for
\* any reason but an unlistable source folder; a run makes at most one
\* directory, and makes one only when it was absent; no task fails for want of
\* the directory.
C6_IdempotentFolderCreation ==
    [][ /\ ~HasEv(trace', "throwEEXIST")
        /\ pc' = "crashed" => HasEv(trace', "throwENOENT")
        /\ EvCount(trace', "mkdir") <= 1
        /\ \A i \in 1..Len(tasks') : tasks'[i].message # "ENOENT"
        /\ EvCount(trace', "mkdir") > EvCount(trace, "mkdir") =>
              /\ dirs \subseteq dirs'
              /\ Cardinality(dirs' \ dirs) = 1
        /\ dirs' # dirs => EvCount(trace', "mkdir") = EvCount(trace, "mkdir") + 1
      ]_vars

\* a second run in a mode whose folder the first run made: nothing is created, tasks succeed
C6_Witness ==
    /\ runs = 2
    /\ Dispatched
    /\ EvCount(trace, "mkdir") = 0
    /\ \E i \in 1..Len(tasks) : tasks[i].state = "fulfilled"

\* 1-based index of the last '.' of s, 0 when it has none
LastDot(s) ==
    IF \E k \in 1..Len(s) : s[k] = "."
    THEN CHOOSE k \in 1..Len(s) : s[k] = "." /\ \A j \in (k + 1)..Len(s) : s[j] # "."
    ELSE 0

\* the text from the last '.' to the end, dot included
FinalSuffix(s) == IF LastDot(s) = 0 THEN <<>> ELSE SubSeq(s, LastDot(s), Len(s))

\* C7 as stated: both loops accept a name exactly when the text from its last
\* '.' to its end, lowercased, is one of .jpg .jpeg .png .webp.
C7_LastDotRule ==
    fnOut.applied =>
        LET rule == toLowerCase(FinalSuffix(fnIn)) \in validExtensions
        IN /\ Len(fnOut.compress) = 1 <=> rule
           /\ Len(fnOut.convert) = 1 <=> rule

\* C7 amended: both loops accept a name exactly when its last '.' is not its
\* first character and the text from that '.' to the end, lowercased, is one
\* of .jpg .jpeg .png .webp.
C7_LastDotNotFirstRule ==
    fnOut.applied =>
        LET rule == /\ LastDot(fnIn) > 1
                    /\ toLowerCase(FinalSuffix(fnIn)) \in validExtensions
        IN /\ Len(fnOut.compress) = 1 <=> rule
           /\ Len(fnOut.convert) = 1 <=> rule
           /\ Len(fnOut.compress) <= 1
           /\ Len(fnOut.convert) <= 1

\* '.png' is skipped by both loops
C7_Witness ==
    /\ fnOut.applied
    /\ fnIn = dot_png
    /\ fnOut.compress = <<>>
    /\ fnOut.convert = <<>>

\* C8: the destination of a convert task is Converted/ followed by the source
\* name with only its final extension, the suffix the classifier examined,
\* replaced by '.' and the lowercase target format.
C8_ConvertDestination ==
    (fnOut.applied /\ Len(fnOut.convert) = 1) =>
        LET stem == SubSeq(fnIn, 1, LastDot(fnIn) - 1)
        IN /\ fnOut.format \in Formats
           /\ fnOut.format = toLowerCase(fnOut.format)
           /\ stem \o extname(fnIn) = fnIn
           /\ fnOut.convert[1].destinationPath =
                 Slice(convertedDestinationFolder, 2) \o <<"/">> \o stem \o <<".">> \o fnOut.format

\* archive.tar.png to webp
C8_Witness ==
    /\ fnOut.applied
    /\ fnIn = archive_tar_png
    /\ fnOut.format = webp
    /\ Len(fnOut.convert) = 1

\* C9: the destination of a compress task is Compressed/ followed by exactly
\* the source name, and its source path is target/ followed by that name.
C9_CompressDestination ==
    (fnOut.applied /\ Len(fnOut.compress) = 1) =>
        /\ fnOut.compress[1].file = fnIn
        /\ fnOut.compress[1].destinationPath =
              Slice(compressedDestinationFolder, 2) \o <<"/">> \o fnIn
        /\ fnOut.compress[1].sourcePath = Slice(sourceFolder, 2) \o <<"/">> \o fnIn

\* photo.JPG keeps its name and case
C9_Witness ==
    /\ fnOut.applied
    /\ fnIn = photo_JPG
    /\ Len(fnOut.compress) = 1

ListingIndex(f) == CHOOSE k \in 1..Len(listing) : listing[k] = f

StartFiles == SelectSeq(trace, LAMBDA e : e.ev = "start")

\* tasks are started in listing order, and every start precedes every outcome line
StartedInOrderBeforeOutcomes ==
    /\ \A i, j \in 1..Len(tasks) :
          i < j => ListingIndex(tasks[i].file) < ListingIndex(tasks[j].file)
    /\ Len(StartFiles) = Len(tasks)
    /\ \A i \in 1..Len(tasks) : StartFiles[i].file = tasks[i].file
    /\ \A j, k \in 1..Len(trace) :
          (trace[j].ev = "start" /\ trace[k].ev \in {"logSuccess", "logError"}) => j < k
    /\ (HasEv(trace, "logSuccess") \/ HasEv(trace, "logError")) =>
          Len(tasks) = Cardinality(EligibleIndexes)

\* the dispatch step leaves the tasks of all eligible entries in flight together
DispatchLeavesAllInFlight ==
    (~Dispatched /\ Dispatched') =>
        /\ Len(tasks') = Cardinality(EligibleIndexes)
        /\ \A i \in 1..Len(tasks') : tasks'[i].state = "uploading"

\* C10 (eager fan-out): the tasks of all eligible entries are started in
\* listing order before any completion handler runs, and the dispatch pass
\* ends with all of them in flight at once.
C10_EagerFanOut ==
    /\ []StartedInOrderBeforeOutcomes
    /\ [][DispatchLeavesAllInFlight]_vars

\* three remote calls in flight at once
C10_Witness ==
    /\ pc = "closed"
    /\ Len(tasks) = 3
    /\ \A i \in 1..Len(tasks) : tasks[i].state = "uploading"

IsOutcome(e) == e.ev \in {"logSuccess", "logError"}

\* C11 (no completion barrier): the session is closed in the step that starts
\* the tasks, so tasks exist only once it is closed, rl.close precedes every
\* outcome line, and no task has got past its upload before the close.
C11_CloseBeforeOutcomes ==
    /\ tasks # <<>> => pc = "closed"
    /\ \A i \in 1..Len(tasks) : tasks[i].state # "uploading" => HasEv(trace, "close")
    /\ \A k \in 1..Len(trace) :
          IsOutcome(trace[k]) => \E j \in 1..(k - 1) : trace[j].ev = "close"

\* a convert run just closed with its tasks all unsettled
C11_Witness ==
    /\ ConvertRun
    /\ tasks # <<>>
    /\ trace[Len(trace)].ev = "close"
    /\ \A i \in 1..Len(tasks) : tasks[i].state = "uploading"

\* C12: a step in which a task fails appends exactly one failure line naming
\* its file, leaves the process position and every other task as they were,
\* and the process is never crashed while tasks exist.
C12_FailureStaysInTask ==
    [][ /\ \A i \in 1..Len(tasks) :
              ( /\ tasks[i].state # "rejected"
                /\ Len(tasks') >= i
                /\ tasks'[i].state = "rejected" ) =>
                 /\ trace' = Append(trace, Ev("logError", tasks[i].file, <<>>))
                 /\ tasks'[i].message \in {"remote", "write"}
                 /\ pc' = pc
                 /\ Len(tasks') = Len(tasks)
                 /\ \A j \in 1..Len(tasks) : j # i => tasks'[j] = tasks[j]
                 /\ UNCHANGED <<dirs, written>>
        /\ pc' = "crashed" => tasks' = <<>>
        /\ ~HasEv(trace', "throwUnhandled")
      ]_vars

\* a local write failed for one file while another file succeeded
C12_Witness ==
    /\ \E i \in 1..Len(tasks) :
          /\ tasks[i].state = "rejected"
          /\ tasks[i].message = "write"
          /\ FileEvCount(trace, "logError", tasks[i].file) = 1
    /\ \E j \in 1..Len(tasks) : tasks[j].state = "fulfilled"


\* task i has settled and logged its one outcome line
SettledAndLogged(i) ==
    /\ Len(tasks) >= i
    /\ Settled(tasks[i])
    /\ FileEvCount(trace, "logSuccess", tasks[i].file)
          + FileEvCount(trace, "logError", tasks[i].file) = 1

\* every task of the run has settled and logged its one outcome line
AllSettledAndLogged == \A i \in 1..Len(tasks) : SettledAndLogged(i)

\* an unsettled task is kept, with its paths, and only moves forward
NotCancelled ==
    \A i \in 1..Len(tasks) :
        ~Settled(tasks[i]) =>
            /\ Len(tasks') >= i
            /\ tasks'[i].file = tasks[i].file
            /\ tasks'[i].sourcePath = tasks[i].sourcePath
            /\ tasks'[i].destinationPath = tasks[i].destinationPath
            /\ \/ tasks'[i].state = tasks[i].state
               \/ tasks[i].state = "uploading" /\ tasks'[i].state \in {"writing", "rejected"}
               \/ tasks[i].state = "writing" /\ tasks'[i].state \in {"fulfilled", "rejected"}

\* C13 (no cancellation): if the remote service answers every request and
\* every write completes, then again and again every issued task has settled
\* with exactly one outcome line; the session is closed while a task is in
\* flight, and no step drops or rewinds a task in flight, so each issued task
\* is among those that settle.
C13_NoCancellation ==
    /\ []<>AllSettledAndLogged
    /\ [][NotCancelled]_vars
    /\ [](\A i \in 1..Len(tasks) : ~Settled(tasks[i]) => pc = "closed")

\* two tasks both settled after the session was closed, one of them failed remotely
C13_Witness ==
    /\ pc = "closed"
    /\ Len(tasks) = 2
    /\ SettledAndLogged(1)
    /\ SettledAndLogged(2)
    /\ \E i \in 1..2 : tasks[i].message = "remote"
    /\ trace[Len(trace)].ev # "close"

\* C14 (no retry): in any run each listed file is submitted at most once and
\* logs at most one outcome line; a file whose call has settled, fulfilled or
\* rejected, was submitted exactly once.
C14_NoRetry ==
    \A k \in 1..Len(listing) :
        LET f == listing[k]
            mine == { i \in 1..Len(tasks) : tasks[i].file = f }
            starts == FileEvCount(trace, "start", f)
            outcomes == Cardinality({ j \in 1..Len(trace) :
                                         IsOutcome(trace[j]) /\ trace[j].file = f })
        IN /\ starts <= 1
           /\ Cardinality(mine) = starts
           /\ outcomes <= 1
           /\ \A i \in mine : Settled(tasks[i]) => outcomes = 1

\* a compress run in which the one request the service rejected was not repeated
C14_Witness ==
    /\ CompressRun
    /\ \E i \in 1..Len(tasks) :
          /\ tasks[i].state = "rejected"
          /\ tasks[i].message = "remote"
          /\ FileEvCount(trace, "start", tasks[i].file) = 1
          /\ FileEvCount(trace, "logError", tasks[i].file) = 1
    /\ \A i \in 1..Len(tasks) : Settled(tasks[i])

CompressedDir == normalize(compressedDestinationFolder)
ConvertedDir == normalize(convertedDestinationFolder)

SourceDir == normalize(sourceFolder)

\* the folder this run may create, as the code names it
OwnOutputFolders ==
    IF CompressRun THEN {compressedDestinationFolder}
    ELSE IF ConvertRun THEN {convertedDestinationFolder}
    ELSE {}

\* the directories this run may create or write into
OwnOutputDirs ==
    IF CompressRun THEN {CompressedDir}
    ELSE IF ConvertRun THEN {ConvertedDir}
    ELSE {}

\* C15 (frame): a run creates at most one directory, the output directory of its
\* mode, every destination it submits lies directly in that directory and it
\* writes only to destinations it submitted; a run that selected no mode
\* creates and writes nothing, and the source directory is never created or
\* written into.
C15_OnlyOwnOutputDirectory ==
    /\ \A k \in 1..Len(trace) :
          trace[k].ev = "mkdir" => trace[k].arg \in OwnOutputFolders
    /\ EvCount(trace, "mkdir") <= 1
    /\ \A i \in 1..Len(tasks) : dirname(tasks[i].destinationPath) \in OwnOutputDirs
    /\ \A w \in written : \E i \in 1..Len(tasks) : tasks[i].destinationPath = w.path
    /\ dirs \subseteq {CompressedDir, ConvertedDir}
    /\ SourceDir \notin dirs

\* a convert run that created ./Converted and wrote a file there while
\* ./Compressed does not exist
C15_Witness ==
    /\ ConvertRun
    /\ HasEv(trace, "mkdir")
    /\ written # {}
    /\ dirs = {ConvertedDir}

\* C16 (distinct destinations): within one run, no two tasks in flight at the
\* same time have the same destination path, in compress mode and in convert
\* mode.
C16_DistinctDestinations ==
    \A i, j \in 1..Len(tasks) :
        ( i # j /\ ~Settled(tasks[i]) /\ ~Settled(tasks[j]) ) =>
            tasks[i].destinationPath # tasks[j].destinationPath

\* the lines a dispatch pass writes itself, one per entry: a start or a skip
IsDispatchLine(e) == e.ev \in {"start", "logSkipped"}

\* C17 (skip lines are synchronous): the skipped lines, and with them the task
\* starts, appear in listing order, each for an ineligible entry and at most
\* once, and no skipped line follows a success or failure line; only the
\* outcome lines may be ordered otherwise.
C17_SkippedInOrderBeforeOutcomes ==
    /\ LET lines == { k \in 1..Len(trace) : IsDispatchLine(trace[k]) }
       IN \A a, b \in lines :
             a < b => ListingIndex(trace[a].file) < ListingIndex(trace[b].file)
    /\ \A k \in 1..Len(trace) :
          trace[k].ev = "logSkipped" =>
              /\ trace[k].file \notin EligiblePool
              /\ \A j \in 1..(k - 1) : ~IsOutcome(trace[j])

\* a convert run that skipped two entries, in listing order, and has an outcome
\* line for the task started between them
C17_Witness ==
    /\ ConvertRun
    /\ EvCount(trace, "logSkipped") = 2
    /\ Len(tasks) = 1
    /\ Len(listing) = 3
    /\ listing[2] = tasks[1].file
    /\ IsOutcome(trace[Len(trace)])

\* the dispatch pass of the run has started a task for every eligible entry
AllTasksStarted == Dispatched /\ Len(tasks) = Cardinality(EligibleIndexes)

\* the menu path of the run has been walked to its end
PathComplete ==
    IF FirstAnswer = <<"1">> THEN AllTasksStarted
    ELSE IF FirstAnswer = <<"2">>
         THEN /\ SecondAnswer # <<>>
              /\ IF ConvertRun THEN AllTasksStarted
                 ELSE HasEv(trace, "logInvalid") /\ tasks = <<>>
    ELSE FirstAnswer # <<>> /\ HasEv(trace, "logInvalid") /\ tasks = <<>>

\* C18 (single close): when ./target can be listed no path crashes, the session
\* is closed exactly once when the path has ended and not at all before, every
\* prompt of the path has been answered and, on the valid paths, every task has
\* been started before the close; only outcome lines follow it.
C18_ClosedExactlyOnce ==
    targetExists =>
        /\ pc # "crashed"
        /\ EvCount(trace, "close") = (IF pc = "closed" THEN 1 ELSE 0)
        /\ pc = "closed" => PathComplete
        /\ \A k \in 1..Len(trace) :
              trace[k].ev = "close" =>
                  \A j \in 1..Len(trace) : j > k => IsOutcome(trace[j])

\* a convert run over a listable ./target, closed once after both prompts and
\* after starting two tasks that have since settled
C18_Witness ==
    /\ targetExists
    /\ ConvertRun
    /\ pc = "closed"
    /\ EvCount(trace, "close") = 1
    /\ Len(tasks) = 2
    /\ \A i \in 1..Len(tasks) : tasks[i].state = "fulfilled"

=============================================================================
